---- MODULE Spec2Model ----
(***************************************************************************)
(* Model of scformatter.py: convert_excels and the helpers it calls.       *)
(* Strings are sequences of one-character strings, a spreadsheet cell is a *)
(* tagged value (str, int or None), a row is a sequence of cells.          *)
(***************************************************************************)
EXTENDS Integers, Sequences, FiniteSets, TLC

\* ------------------------------------------------------------------ bounds
\* Input files offered to one run.
MaxFiles == 2
\* Sheets opened during one run (over all files).
MaxSheets == 2
\* Data rows drawn for one run (over all sheets).
MaxRows == 1
\* --------------------------------------------------------------- constants
ALL_CONFIGS == {"SRC", "DST", "SRV", "ADD", "RM", "USG", "CMT"}
REQUIRED_CONFIGS == {"SRC", "DST", "SRV", "ADD", "RM"}
COMPLEX_CONFIGS == {"service_replace"}

\* ------------------------------------------------------------ cell values
StrCell(s) == [t |-> "str", s |-> s, n |-> 0]
IntCell(n) == [t |-> "int", s |-> <<>>, n |-> n]
NoneCell == [t |-> "none", s |-> <<>>, n |-> 0]

\* ---------------------------------------------------------- str functions
IsSpace(c) == c \in {" ", "\n"}
IsDigit(c) == c \in {"0", "1", "2", "3", "4", "5", "6", "7", "8", "9"}

RECURSIVE lstrip(_)
lstrip(s) == IF s # <<>> /\ IsSpace(Head(s)) THEN lstrip(Tail(s)) ELSE s

RECURSIVE rstrip(_)
rstrip(s) ==
    IF s # <<>> /\ IsSpace(s[Len(s)]) THEN rstrip(SubSeq(s, 1, Len(s) - 1)) ELSE s

strip(s) == rstrip(lstrip(s))

DigitChar(d) == <<"0", "1", "2", "3", "4", "5", "6", "7", "8", "9">>[d + 1]

\* str(n) of a non-negative int
RECURSIVE str(_)
str(n) == IF n < 10 THEN <<DigitChar(n)>> ELSE str(n \div 10) \o <<DigitChar(n % 10)>>

\* re.split('\n|,', val): every fragment, the empty ones included
RECURSIVE resplit(_)
resplit(s) ==
    IF \E i \in 1..Len(s) : s[i] \in {"\n", ","}
    THEN LET i == CHOOSE k \in 1..Len(s) :
                      /\ s[k] \in {"\n", ","}
                      /\ \A j \in 1..(k - 1) : s[j] \notin {"\n", ","}
         IN  <<SubSeq(s, 1, i - 1)>> \o resplit(SubSeq(s, i + 1, Len(s)))
    ELSE <<s>>

\* sep.join(parts)
RECURSIVE join(_, _)
join(sep, parts) ==
    IF parts = <<>> THEN <<>>
    ELSE IF Len(parts) = 1 THEN parts[1]
    ELSE parts[1] \o sep \o join(sep, Tail(parts))

isnumeric(s) == s # <<>> /\ \A i \in 1..Len(s) : IsDigit(s[i])

StartsWith(s, p) == Len(p) <= Len(s) /\ SubSeq(s, 1, Len(p)) = p

\* s.replace(pattern, replacement) for a non-empty pattern: leftmost,
\* non-overlapping occurrences
RECURSIVE replace(_, _, _)
replace(s, pattern, replacement) ==
    IF s = <<>> THEN <<>>
    ELSE IF StartsWith(s, pattern)
         THEN replacement \o replace(SubSeq(s, Len(pattern) + 1, Len(s)), pattern, replacement)
         ELSE <<Head(s)>> \o replace(Tail(s), pattern, replacement)

\* ------------------------------------------------------------- safe_strip
safe_strip(c) ==
    IF c.t = "str" THEN strip(c.s)
    ELSE IF c.t = "int" /\ c.n # 0 THEN str(c.n)
    ELSE <<>>

\* ---------------------------------------------------------------- configs
\* config.json of the run: logical field -> header text, and the ordered
\* service_replace pairs (pattern, replacement).
GoodConfig ==
    [k \in ALL_CONFIGS \cup COMPLEX_CONFIGS |->
        CASE k = "SRC" -> <<"S">>
          [] k = "DST" -> <<"D">>
          [] k = "SRV" -> <<"V">>
          [] k = "ADD" -> <<"A">>
          [] k = "RM"  -> <<"R">>
          [] k = "USG" -> <<"U">>
          [] k = "CMT" -> <<"C">>
          [] OTHER     -> << <<<<"T", "C", "P", " ", "8">>, <<"W">>>>,
                             <<<<"z">>, <<>>>> >>]

\* a config.json that lacks the RM key
BadConfig == [k \in (ALL_CONFIGS \cup COMPLEX_CONFIGS) \ {"RM"} |-> GoodConfig[k]]

ConfigSet == {GoodConfig, BadConfig}

\* reverse_configs = {val:key for key, val in configs.items() if key not in COMPLEX_CONFIGS}
reverse_configs(cf) ==
    LET keys == DOMAIN cf \ COMPLEX_CONFIGS
    IN  [h \in {cf[k] : k \in keys} |-> CHOOSE k \in keys : cf[k] = h]

\* required_configs = {key:val for key, val in configs.items() if key in REQUIRED_CONFIGS}
required_configs(cf) == [k \in DOMAIN cf \cap REQUIRED_CONFIGS |-> cf[k]]

\* ------------------------------------------------------- header resolution
\* d[k] = v on a dict
SetItem(d, k, v) == [x \in DOMAIN d \cup {k} |-> IF x = k THEN v ELSE d[x]]

EmptyDict == [x \in {} |-> 0]

\* enumerate(map(safe_strip, row)): pairs (zero-based index, stripped text)
EnumerateRow(row) == [i \in 1..Len(row) |-> <<i - 1, safe_strip(row[i])>>]

\* {reverse_configs[cell]:idx for idx, cell in rows if cell in reverse_configs}
\* a dict comprehension stores each pair in turn: a later pair with the same
\* key replaces the earlier one
RECURSIVE DictCompFirst(_, _, _)
DictCompFirst(pairs, rc, acc) ==
    IF pairs = <<>> THEN acc
    ELSE LET idx == Head(pairs)[1]
             cell == Head(pairs)[2]
         IN  DictCompFirst(Tail(pairs), rc,
                           IF cell \in DOMAIN rc /\ rc[cell] \notin DOMAIN acc
                           THEN SetItem(acc, rc[cell], idx) ELSE acc)

RECURSIVE DictComp(_, _, _)
DictComp(pairs, rc, acc) ==
    IF pairs = <<>> THEN acc
    ELSE LET idx == Head(pairs)[1]
             cell == Head(pairs)[2]
         IN  DictComp(Tail(pairs), rc,
                      IF cell \in DOMAIN rc THEN SetItem(acc, rc[cell], idx) ELSE acc)

\* cfgs of a sheet from its rows one and two (chain.from_iterable: row one
\* first, then row two)
ResolveColumns(row1, row2, cf) ==
    DictComp(EnumerateRow(row1) \o EnumerateRow(row2), reverse_configs(cf), EmptyDict)

\* len(cfgs.keys() & REQUIRED_CONFIGS) != len(REQUIRED_CONFIGS)
SheetSkipped(c) ==
    Cardinality(DOMAIN c \cap REQUIRED_CONFIGS) # Cardinality(REQUIRED_CONFIGS)

\* miss = REQUIRED_CONFIGS - cfgs.keys()
MissingKeys(c) == REQUIRED_CONFIGS \ DOMAIN c

\* ------------------------------------------------------------- input data
H(ch) == StrCell(<<ch>>)

\* Header rows a sheet may carry in row one or row two.  HCore repeats the
\* source header in its last column, with blanks around it.
HFull   == <<H("S"), H("D"), H("V"), H("A"), H("R"), H("U"), H("C"), NoneCell>>
HBlank  == <<NoneCell, NoneCell, NoneCell, NoneCell, NoneCell, NoneCell, NoneCell, NoneCell>>
HNoUSG  == <<H("S"), H("D"), H("V"), H("A"), H("R"), NoneCell, H("C"), NoneCell>>
HCore   == <<H("S"), H("D"), H("V"), NoneCell, NoneCell, NoneCell, NoneCell, StrCell(<<" ", "S", " ">>)>>
HFlags  == <<NoneCell, NoneCell, NoneCell, H("A"), H("R"), H("U"), H("C"), NoneCell>>

\* Rows one and two of a sheet whose row two is not a data row.
SheetHeads ==
    {<<HBlank, HFull>>, <<HFull, HCore>>, <<HFlags, HCore>>, <<HCore, HFlags>>,
     <<HBlank, HBlank>>, <<HCore, HBlank>>, <<HNoUSG, HBlank>>}

\* Row one of a sheet whose row two is its first data row.
SheetTops == {HFull, HNoUSG}

\* Cell contents a data row may carry in the column of each logical field.
FieldValues ==
    [SRC : {NoneCell, StrCell(<<" ", "a", ",">>)},
     DST : {IntCell(0), StrCell(<<"b">>)},
     SRV : {NoneCell, StrCell(<<",">>), StrCell(<<"8", ",", "z">>)},
     ADD : {NoneCell, StrCell(<<"x">>)},
     RM  : {NoneCell, IntCell(1)},
     USG : {StrCell(<<"u", " ">>)},
     CMT : {StrCell(<<"c">>)}]

\* The data row that carries v[f] in the column resolved for f and nothing else.
MkRow(c, v) ==
    [i \in 1..Len(HBlank) |->
        IF \E f \in DOMAIN c : c[f] = i - 1
        THEN v[CHOOSE f \in DOMAIN c : c[f] = i - 1]
        ELSE NoneCell]

DataRows(c) == {MkRow(c, v) : v \in FieldValues}

\* ---------------------------------------------------------- row processing
\* "; ".join(re.split('\n|,', val))
JoinSplit(val) == join(<<";", " ">>, resplit(val))

\* srvs = [(f"TCP {srv}" if srv.isnumeric() else srv) for srv in srvs if srv]
RECURSIVE TagPorts(_)
TagPorts(srvs) ==
    IF srvs = <<>> THEN <<>>
    ELSE LET srv == Head(srvs)
         IN  IF srv = <<>> THEN TagPorts(Tail(srvs))
             ELSE <<IF isnumeric(srv) THEN <<"T", "C", "P", " ">> \o srv ELSE srv>>
                  \o TagPorts(Tail(srvs))

\* for pattern, replacement in configs["service_replace"].items(): ... .replace(...)
RECURSIVE ApplyReplace(_, _)
ApplyReplace(s, rules) ==
    IF rules = <<>> THEN s
    ELSE ApplyReplace(replace(s, Head(rules)[1], Head(rules)[2]), Tail(rules))

ServiceValue(val, cf) ==
    ApplyReplace(join(<<";", " ">>, TagPorts(resplit(val))), cf["service_replace"])

\* input_sheet.iter_rows(min_row=2, values_only=True): the first row the row
\* loop takes from a sheet whose rows one and two are r12
FirstDataRowOne(r12) == r12[1]

FirstDataRow(r12) == r12[2]

\* row[cfgs[f]]
CellOf(row, c, f) == row[c[f] + 1]

\* error_msg as built by lines 211-226, one tag per message
ErrorMsg(row, c) ==
    LET add_true == safe_strip(CellOf(row, c, "ADD")) # <<>>
        rm_true  == safe_strip(CellOf(row, c, "RM")) # <<>>
    IN  (IF safe_strip(CellOf(row, c, "SRC")) # <<>> THEN <<>> ELSE <<"Miss SRC">>)
        \o (IF safe_strip(CellOf(row, c, "DST")) # <<>> THEN <<>> ELSE <<"Miss DST">>)
        \o (IF safe_strip(CellOf(row, c, "SRV")) # <<>> THEN <<>> ELSE <<"Miss SRV">>)
        \o (IF add_true /\ rm_true THEN <<"Have Both">> ELSE <<>>)

\* values["ACT"]; a defaultdict(str) reads "" when the key was never set
ActValue(row, c) ==
    LET add_true == safe_strip(CellOf(row, c, "ADD")) # <<>>
        rm_true  == safe_strip(CellOf(row, c, "RM")) # <<>>
    IN  IF add_true /\ rm_true THEN ""
        ELSE IF add_true THEN "accept"
        ELSE IF rm_true THEN "remove"
        ELSE ""

\* values["CMT"] = "|".join(tmp)
CmtValue(row, c) ==
    LET usg == safe_strip(CellOf(row, c, "USG"))
        cmt == safe_strip(CellOf(row, c, "CMT"))
    IN  join(<<"|">>, (IF usg # <<>> THEN <<usg>> ELSE <<>>)
                      \o (IF cmt # <<>> THEN <<cmt>> ELSE <<>>))

\* the five values of lines 245-249
Values(row, c, cf) ==
    LET src == safe_strip(CellOf(row, c, "SRC"))
        dst == safe_strip(CellOf(row, c, "DST"))
        srv == safe_strip(CellOf(row, c, "SRV"))
    IN  <<IF src # <<>> THEN JoinSplit(src) ELSE <<>>,
          IF dst # <<>> THEN JoinSplit(dst) ELSE <<>>,
          IF srv # <<>> THEN ServiceValue(srv, cf) ELSE <<>>,
          ActValue(row, c),
          CmtValue(row, c)>>

\* row[cfgs["USG"]] and row[cfgs["CMT"]] on a plain dict
RaisesKeyError(c) == "USG" \notin DOMAIN c \/ "CMT" \notin DOMAIN c

\* the branch of lines 237-241 taken for a list of messages
Decide(msgs) ==
    IF msgs # <<>> /\ Len(msgs) = 3 THEN "skipped"
    ELSE IF msgs # <<>> THEN "rejected"
    ELSE "accepted"

WriteCellsGap(sheet, r, vals) ==
    [i \in DOMAIN sheet \cup {r + 1} |-> IF i = r + 1 THEN vals ELSE sheet[i]]

\* output_sheet.cell(row=r, column=1..5, value=...)
WriteCells(sheet, r, vals) ==
    [i \in DOMAIN sheet \cup {r} |-> IF i = r THEN vals ELSE sheet[i]]

\* ------------------------------------------------------------------ state
VARIABLES
    pc,               \* "start", "files", "sheets", "rows", "saved", "returned", "raised"
    configs,          \* the configs argument
    inputs,           \* len(inputs)
    output,           \* TRUE iff the output argument is a non-empty path
    file_idx,         \* files taken from inputs so far
    file_status,      \* "none", "ok", "invalid": what load_workbook did with the current file
    input_workbook,   \* "unbound" until the first load_workbook returns, then "bound"
    nsheets,          \* sheets opened in this run
    sheet_no,         \* sheets of the current file already iterated
    rows12,           \* rows one and two of the current sheet
    cfgs,             \* cfgs of the current sheet
    input_row_idx,    \* number of the last row the row loop took (1 before the first)
    seen,             \* rows the row loop has taken from the current sheet, in order
    ndrawn,           \* data rows drawn in this run
    output_workbook,  \* sequence of output sheets; a sheet maps row numbers to five values
    output_row_idx,   \* output_row_idx of the current sheet
    outcome,          \* what the row loop did with the last row: "none", "accepted",
                      \* "skipped" (line 238), "rejected" (line 240 printed), "raised"
    error_msg,        \* error_msg of the last row
    exc               \* "none" or the exception that left convert_excels

vars == <<pc, configs, inputs, output, file_idx, file_status, input_workbook, nsheets,
          sheet_no, rows12, cfgs, input_row_idx, seen, ndrawn, output_workbook,
          output_row_idx, outcome, error_msg, exc>>

Init ==
    /\ pc = "start"
    /\ configs \in ConfigSet
    /\ inputs \in 0..MaxFiles
    /\ output \in BOOLEAN
    /\ file_idx = 0
    /\ file_status = "none"
    /\ input_workbook = "unbound"
    /\ nsheets = 0
    /\ sheet_no = 0
    /\ rows12 = <<>>
    /\ cfgs = EmptyDict
    /\ input_row_idx = 0
    /\ seen = <<>>
    /\ ndrawn = 0
    /\ output_workbook = <<>>
    /\ output_row_idx = 0
    /\ outcome = "none"
    /\ error_msg = <<>>
    /\ exc = "none"

\* lines 158-176: validation of the arguments, then the empty output workbook
Validate ==
    /\ pc = "start"
    /\ pc' = IF \/ ~(REQUIRED_CONFIGS \subseteq DOMAIN configs)
                \/ inputs = 0
                \/ ~output
             THEN "returned" ELSE "files"
    /\ UNCHANGED <<configs, inputs, output, file_idx, file_status, input_workbook,
                   nsheets, sheet_no, rows12, cfgs, input_row_idx, seen, ndrawn,
                   output_workbook, output_row_idx, outcome, error_msg, exc>>

\* lines 179-182: the next file loads
LoadWorkbook ==
    /\ pc = "files"
    /\ file_idx < inputs
    /\ nsheets < MaxSheets
    /\ file_idx' = file_idx + 1
    /\ file_status' = "ok"
    /\ input_workbook' = "bound"
    /\ sheet_no' = 0
    /\ pc' = "sheets"
    /\ UNCHANGED <<configs, inputs, output, nsheets, rows12, cfgs, input_row_idx, seen,
                   ndrawn, output_workbook, output_row_idx, outcome, error_msg, exc>>

\* lines 179-182, 250-255: load_workbook raises InvalidFileException; the handler
\* prints it and the finally clause calls input_workbook.close()
LoadWorkbookFails ==
    /\ pc = "files"
    /\ file_idx < inputs
    /\ file_idx' = file_idx + 1
    /\ file_status' = "invalid"
    /\ IF input_workbook = "unbound"
       THEN pc' = "raised" /\ exc' = "UnboundLocalError"
       ELSE pc' = "files" /\ exc' = exc
    /\ UNCHANGED <<configs, inputs, output, input_workbook, nsheets, sheet_no, rows12,
                   cfgs, input_row_idx, seen, ndrawn, output_workbook, output_row_idx,
                   outcome, error_msg>>

\* lines 185-207: the next sheet of the file; its rows one and two are read,
\* the columns resolved, and either the sheet is skipped or its output sheet made
NextSheet ==
    /\ pc = "sheets"
    /\ nsheets < MaxSheets
    /\ \/ /\ rows12' \in SheetHeads
          /\ UNCHANGED ndrawn
       \/ /\ ndrawn < MaxRows
          /\ ndrawn' = ndrawn + 1
          /\ \E r1 \in SheetTops :
               \E r2 \in DataRows(ResolveColumns(r1, HBlank, configs)) :
                  rows12' = <<r1, r2>>
    /\ cfgs' = ResolveColumns(rows12'[1], rows12'[2], configs)
    /\ nsheets' = nsheets + 1
    /\ IF SheetSkipped(cfgs')
       THEN /\ sheet_no' = sheet_no + 1
            /\ pc' = "sheets"
            /\ UNCHANGED <<output_workbook, output_row_idx, input_row_idx, seen>>
       ELSE /\ output_workbook' = Append(output_workbook, <<>>)
            /\ output_row_idx' = 0
            /\ input_row_idx' = 1
            /\ seen' = <<>>
            /\ pc' = "rows"
            /\ UNCHANGED sheet_no
    /\ outcome' = "none"
    /\ error_msg' = <<>>
    /\ UNCHANGED <<configs, inputs, output, file_idx, file_status, input_workbook, exc>>

\* lines 208-249 for the row `row`, numbered input_row_idx + 1
ProcessRow(row) ==
    /\ input_row_idx' = input_row_idx + 1
    /\ seen' = Append(seen, row)
    /\ IF RaisesKeyError(cfgs)
       THEN /\ outcome' = "raised"
            /\ error_msg' = ErrorMsg(row, cfgs)
            /\ exc' = "KeyError"
            /\ pc' = "raised"
            /\ UNCHANGED <<output_workbook, output_row_idx>>
       ELSE /\ error_msg' = ErrorMsg(row, cfgs)
            /\ outcome' = Decide(error_msg')
            /\ IF outcome' = "accepted"
               THEN /\ output_row_idx' = output_row_idx + 1
                    /\ output_workbook' =
                         [output_workbook EXCEPT ![Len(output_workbook)] =
                             WriteCells(@, output_row_idx + 1, Values(row, cfgs, configs))]
               ELSE UNCHANGED <<output_workbook, output_row_idx>>
            /\ UNCHANGED <<pc, exc>>
    /\ UNCHANGED <<configs, inputs, output, file_idx, file_status, input_workbook,
                   nsheets, sheet_no, rows12, cfgs>>

\* line 208, first iteration
ReadRowTwo ==
    /\ pc = "rows"
    /\ input_row_idx = 1
    /\ ProcessRow(FirstDataRow(rows12))
    /\ UNCHANGED ndrawn

\* line 208, a later iteration: one more row of the sheet
ReadDataRow ==
    /\ pc = "rows"
    /\ input_row_idx >= 2
    /\ ndrawn < MaxRows
    /\ ndrawn' = ndrawn + 1
    /\ \E row \in DataRows(cfgs) : ProcessRow(row)

\* line 208: the sheet has no more rows.  The names of the finished sheet are
\* dead from here on (each is assigned again before its next read: cfgs at
\* line 191, output_row_idx at 207, error_msg at 210), so they are cleared.
EndSheet ==
    /\ pc = "rows"
    /\ input_row_idx >= 2
    /\ sheet_no' = sheet_no + 1
    /\ pc' = "sheets"
    /\ rows12' = <<>>
    /\ cfgs' = EmptyDict
    /\ input_row_idx' = 0
    /\ seen' = <<>>
    /\ output_row_idx' = 0
    /\ outcome' = "none"
    /\ error_msg' = <<>>
    /\ UNCHANGED <<configs, inputs, output, file_idx, file_status, input_workbook,
                   nsheets, ndrawn, output_workbook, exc>>

\* lines 185, 254-255: no more sheets; the finally clause closes the workbook
EndFile ==
    /\ pc = "sheets"
    /\ sheet_no >= 1
    /\ pc' = "files"
    /\ UNCHANGED <<configs, inputs, output, file_idx, file_status, input_workbook,
                   nsheets, sheet_no, rows12, cfgs, input_row_idx, seen, ndrawn,
                   output_workbook, output_row_idx, outcome, error_msg, exc>>

\* line 256: output_workbook.save(output)
Save ==
    /\ pc = "files"
    /\ file_idx = inputs
    /\ pc' = "saved"
    /\ UNCHANGED <<configs, inputs, output, file_idx, file_status, input_workbook,
                   nsheets, sheet_no, rows12, cfgs, input_row_idx, seen, ndrawn,
                   output_workbook, output_row_idx, outcome, error_msg, exc>>

Next ==
    \/ Validate
    \/ LoadWorkbook
    \/ LoadWorkbookFails
    \/ NextSheet
    \/ ReadRowTwo
    \/ ReadDataRow
    \/ EndSheet
    \/ EndFile
    \/ Save

Spec == Init /\ [][Next]_vars

\* ================================================================= claims
\* The row the row loop took last, and the stripped text of its cell for field f.
LastRow == seen[Len(seen)]

LastText(f) == safe_strip(CellOf(LastRow, cfgs, f))

\* The last row was carried through lines 210-249 without an exception.
RowDecided == seen # <<>> /\ outcome \in {"accepted", "skipped", "rejected"}

BothFlags == LastText("ADD") # <<>> /\ LastText("RM") # <<>>

BlankCore == {f \in {"SRC", "DST", "SRV"} : LastText(f) = <<>>}

\* C1: a row whose source, destination and service texts are non-empty and
\* which has at most one of the two flags set is Accepted.
C1_CompleteRowAccepted ==
    (seen # <<>> /\ BlankCore = {} /\ ~BothFlags) => outcome = "accepted"

\* C2: a row whose source, destination and service texts are all empty is
\* Skipped without a report, whatever its flags (both flags set included).
C2_BlankRowSkipped ==
    (RowDecided /\ BlankCore = {"SRC", "DST", "SRV"}) => outcome = "skipped"

\* C3: a row with both flags set is Rejected with the both-flags reason among
\* its reasons, however many of source, destination and service are blank.
C3_BothFlagsRejected ==
    (RowDecided /\ BothFlags) =>
        /\ outcome = "rejected"
        /\ \E i \in 1..Len(error_msg) : error_msg[i] = "Have Both"

\* C4: every row written to an output sheet has a non-empty source, a
\* non-empty destination and a non-empty service.
C4_WrittenRowsNonEmpty ==
    \A k \in 1..Len(output_workbook) :
        \A i \in DOMAIN output_workbook[k] :
            LET r == output_workbook[k][i]
            IN  r[1] # <<>> /\ r[2] # <<>> /\ r[3] # <<>>

\* Scan order of header resolution: the cells of row one left to right, then
\* those of row two.  ScanTexts[p] is the stripped text of the p-th scanned
\* cell and ScanCol(p) its zero-based column.
ScanTexts ==
    [p \in 1..(Len(rows12[1]) + Len(rows12[2])) |->
        IF p <= Len(rows12[1]) THEN safe_strip(rows12[1][p])
        ELSE safe_strip(rows12[2][p - Len(rows12[1])])]

ScanCol(p) == IF p <= Len(rows12[1]) THEN p - 1 ELSE p - Len(rows12[1]) - 1

\* Scan positions of texts that carry the header text h.
Occurrences(texts, h) == {p \in DOMAIN texts : texts[p] = h}

FirstOf(S) == CHOOSE p \in S : \A q \in S : p <= q

LastOf(S) == CHOOSE p \in S : \A q \in S : q <= p

Fields == DOMAIN configs \ COMPLEX_CONFIGS

\* C5 as stated: the column recorded for a field is that of the first
\* occurrence of its header text in scan order.
C5_FirstOccurrenceWins ==
    rows12 # <<>> =>
        LET texts == ScanTexts
        IN  \A f \in Fields :
                LET occ == Occurrences(texts, configs[f])
                IN  occ # {} => f \in DOMAIN cfgs /\ cfgs[f] = ScanCol(FirstOf(occ))

\* C5 amended: the column recorded for a field is that of the last occurrence
\* of its header text in scan order (row one, then row two, left to right);
\* a field whose header text occurs nowhere is not recorded.
C5_LastOccurrenceWins ==
    rows12 # <<>> =>
        LET texts == ScanTexts
        IN  \A f \in Fields :
                LET occ == Occurrences(texts, configs[f])
                IN  IF occ = {} THEN f \notin DOMAIN cfgs
                    ELSE f \in DOMAIN cfgs /\ cfgs[f] = ScanCol(LastOf(occ))

\* A header text repeated within row two and present in both rows, on a
\* sheet whose rows are being read.
C5_Witness ==
    /\ rows12 # <<>>
    /\ pc = "rows"
    /\ \E f \in DOMAIN cfgs :
        LET occ == Occurrences(ScanTexts, configs[f])
        IN  /\ ScanCol(FirstOf(occ)) # ScanCol(LastOf(occ))
            /\ \E p, q \in occ : p <= Len(rows12[1]) /\ q > Len(rows12[1])
            /\ \E p, q \in occ : p # q /\ p > Len(rows12[1]) /\ q > Len(rows12[1])

\* C6: on a sheet that resolves the five required fields but not USG or not
\* CMT, every row is processed without a failure.
C6_OptionalFieldsOptional ==
    (seen # <<>> /\ ("USG" \notin DOMAIN cfgs \/ "CMT" \notin DOMAIN cfgs)) =>
        (outcome \in {"accepted", "skipped", "rejected"} /\ exc = "none")

\* C7: a file that cannot be opened never aborts the run.
C7_InvalidFileNeverAborts == file_status = "invalid" => pc # "raised"

\* Accepted, stated on the cells of a row: source, destination and service
\* texts non-empty and not both flags set.
AcceptedRow(row) ==
    /\ safe_strip(CellOf(row, cfgs, "SRC")) # <<>>
    /\ safe_strip(CellOf(row, cfgs, "DST")) # <<>>
    /\ safe_strip(CellOf(row, cfgs, "SRV")) # <<>>
    /\ ~(safe_strip(CellOf(row, cfgs, "ADD")) # <<>> /\ safe_strip(CellOf(row, cfgs, "RM")) # <<>>)

\* The five values of every Accepted row of rows, in the order of rows.
RECURSIVE AcceptedValues(_)
AcceptedValues(rows) ==
    IF rows = <<>> THEN <<>>
    ELSE (IF AcceptedRow(Head(rows)) THEN <<Values(Head(rows), cfgs, configs)>> ELSE <<>>)
         \o AcceptedValues(Tail(rows))

\* The rows of the current sheet carried through the loop body to its end
\* (a row on which the body raised was not).
Processed == IF outcome = "raised" THEN SubSeq(seen, 1, Len(seen) - 1) ELSE seen

InSheet == rows12 # <<>> /\ ~SheetSkipped(cfgs) /\ pc \in {"rows", "raised"}

\* C8: after any prefix of the rows the row loop takes from a resolved sheet,
\* the output sheet holds exactly the values of the Accepted rows of that
\* prefix, in their order, in rows 1..k with k = output_row_idx; every output
\* sheet of the workbook is numbered without gaps.
C8_OutputIsAcceptedPrefix ==
    /\ \A k \in 1..Len(output_workbook) :
          DOMAIN output_workbook[k] = 1..Cardinality(DOMAIN output_workbook[k])
    /\ InSheet =>
          /\ output_workbook[Len(output_workbook)] = AcceptedValues(Processed)
          /\ output_row_idx = Len(AcceptedValues(Processed))

\* Two Accepted rows with different values, written to a second output
\* sheet after an earlier sheet took a row that was not Accepted.
C8_Witness ==
    /\ InSheet
    /\ Len(output_workbook) = 2
    /\ output_workbook[1] = <<>>
    /\ output_row_idx = 2
    /\ Len(seen) = 2
    /\ AcceptedRow(seen[1]) /\ AcceptedRow(seen[2])
    /\ Values(seen[1], cfgs, configs) # Values(seen[2], cfgs, configs)

\* C9 as stated: row two is never treated as a data row, so it produces
\* neither an output row nor a rejection report.
C9_RowTwoNeverData ==
    (seen # <<>> /\ input_row_idx = 2) => outcome \notin {"accepted", "rejected"}

\* C9 amended: the row loop numbers its rows from 2, and the first row it
\* takes from a resolved sheet is row two of the sheet; row one is never taken.
C9_RowTwoIsFirstDataRow ==
    seen # <<>> =>
        /\ seen[1] = rows12[2]
        /\ input_row_idx = Len(seen) + 1

\* Row two carries configured header texts and was reported as rejected.
C9_Witness ==
    /\ seen # <<>>
    /\ input_row_idx = 2
    /\ rows12[1] # rows12[2]
    /\ \E i \in 1..Len(rows12[2]) : safe_strip(rows12[2][i]) = configs["ADD"]
    /\ outcome = "rejected"

\* s contains an empty fragment when read as fragments joined with "; "
HasEmptyFragment(s) ==
    \/ s = <<>>
    \/ StartsWith(s, <<";", " ">>)
    \/ (Len(s) >= 2 /\ SubSeq(s, Len(s) - 1, Len(s)) = <<";", " ">>)
    \/ \E i \in 1..Len(s) : StartsWith(SubSeq(s, i, Len(s)), <<";", " ", ";", " ">>)

\* C10: the source and destination written to an output sheet never contain
\* an empty fragment.
C10_NoEmptyFragment ==
    \A k \in 1..Len(output_workbook) :
        \A i \in DOMAIN output_workbook[k] :
            /\ ~HasEmptyFragment(output_workbook[k][i][1])
            /\ ~HasEmptyFragment(output_workbook[k][i][2])

====
